---- MODULE Spec2Model ----
(***************************************************************************)
(* cowchat: the entity allocator (POST /cows/beckon and the read-only      *)
(* handlers) over the SQLite tables cows / chat_sessions, and the          *)
(* per-connection chat session actor (CowChat).                            *)
(*                                                                         *)
(* Strings that the code inspects character by character (cow names,      *)
(* request paths) are sequences of one-character strings.                 *)
(***************************************************************************)
EXTENDS Integers, Sequences, FiniteSets, TLC

\* ------------------------------------------------------------------------
\* Bounds of the model
\* ------------------------------------------------------------------------

\* Number of names of COW_NAMES kept in the model's catalog.
CatalogSize == 2

\* ------------------------------------------------------------------------
\* Program constants
\* ------------------------------------------------------------------------

\* #[validate(range(min = 1, max = 5))] on BeckonCowsRequest.count
MIN_COUNT == 1
MAX_COUNT == 5

\* gen_range bounds of make_cow
AGE_MIN == 5
AGE_MAX == 30
WEIGHT_MIN == 1300
WEIGHT_MAX == 1800

\* ------------------------------------------------------------------------
\* Characters and names
\* ------------------------------------------------------------------------

LowerCase == <<"a","b","c","d","e","f","g","h","i","j","k","l","m",
               "n","o","p","q","r","s","t","u","v","w","x","y","z">>
UpperCase == <<"A","B","C","D","E","F","G","H","I","J","K","L","M",
               "N","O","P","Q","R","S","T","U","V","W","X","Y","Z">>

\* char::to_uppercase on an ASCII character
to_uppercase(ch) ==
    IF \E i \in 1..26 : LowerCase[i] = ch
    THEN UpperCase[CHOOSE i \in 1..26 : LowerCase[i] = ch]
    ELSE ch

\* The lowercase of an ASCII character, as SQLite's NOCASE folds it
to_lowercase(ch) ==
    IF \E i \in 1..26 : UpperCase[i] = ch
    THEN LowerCase[CHOOSE i \in 1..26 : UpperCase[i] = ch]
    ELSE ch

\* Names of the catalog, in the order the model admits them.
NamePool == << <<"O","r","e","o">>,
               <<"R","u","b","y">>,
               <<"B","e","l","l","a">>,
               <<"D","a","i","s","y">>,
               <<"P","e","n","n","y">> >>

\* lazy_static COW_NAMES: HashSet<String>
COW_NAMES == { NamePool[i] : i \in 1..CatalogSize }

\* ------------------------------------------------------------------------
\* Cow, CowColor and their SQL conversions
\* ------------------------------------------------------------------------

CowColor == {"Black", "Brown", "Tan", "BlackWithWhitePatches"}

\* impl AsRef<str> for CowColor / impl ToSql for CowColor
as_ref(color) ==
    CASE color = "Black" -> "black"
      [] color = "Brown" -> "brown"
      [] color = "Tan" -> "tan"
      [] color = "BlackWithWhitePatches" -> "black and white patches"

\* Mutant of try_from: the patched colour is read back as plain black.
try_from_prefix(s) ==
    CASE s = "black" -> "Black"
      [] s = "brown" -> "Brown"
      [] s = "tan" -> "Tan"
      [] s = "black and white patches" -> "Black"
      [] OTHER -> "InvalidType"

\* impl TryFrom<&str> for CowColor / impl FromSql for CowColor
try_from(s) ==
    CASE s = "black" -> "Black"
      [] s = "brown" -> "Brown"
      [] s = "tan" -> "Tan"
      [] s = "black and white patches" -> "BlackWithWhitePatches"
      [] OTHER -> "InvalidType"

\* Cow::new
Cow(name, id, color, age, weight) ==
    [name |-> name, id |-> id, color |-> color, age |-> age, weight |-> weight]

\* One outcome of the three thread_rng draws of make_cow.
Draws ==
    { [color |-> 0, age |-> AGE_MIN, weight |-> WEIGHT_MAX],
      [color |-> 1, age |-> AGE_MAX, weight |-> WEIGHT_MIN] }

\* make_cow, for the draw r
make_cow(name, id, r) ==
    LET color == CASE r.color = 0 -> "Black"
                   [] r.color = 1 -> "BlackWithWhitePatches"
                   [] r.color = 2 -> "Brown"
                   [] r.color = 3 -> "Tan"
    IN Cow(name, id, color, r.age, r.weight)

\* ------------------------------------------------------------------------
\* Helpers
\* ------------------------------------------------------------------------

Min(a, b) == IF a <= b THEN a ELSE b

\* The sequences of k pairwise distinct elements of S.
RECURSIVE Arrangements(_, _)
Arrangements(S, k) ==
    IF k <= 0 THEN { <<>> }
    ELSE UNION { { <<x>> \o t : t \in Arrangements(S \ {x}, k - 1) } : x \in S }

\* IteratorRandom::choose_multiple(rng, amount) over the elements of S: every
\* outcome the generator can produce, as the Vec it returns.
choose_multiple(S, amount) == Arrangements(S, Min(amount, Cardinality(S)))

\* ------------------------------------------------------------------------
\* The store: tables cows and chat_sessions, and the queries on them
\* ------------------------------------------------------------------------

VARIABLES
    cows,           \* table cows, rows in rowid (insertion) order
    chat_sessions,  \* table chat_sessions, rows in rowid order
    beckon,         \* per worker: the state of its beckon_cows call
    now,            \* Instant::now(), in seconds
    chat,           \* per connection: the chat request and its CowChat actor
    inbound,        \* per connection: the last item given to CowChat::handle
    emitted,        \* per connection: the frames written by the last callback
    sent,           \* the frames a scripted client has sent, with their instants
    pool,           \* the connections of db_pool that are checked out
    req             \* per request slot: a handler invocation and its response

SessionVars == <<now, chat, inbound, emitted, sent, req>>

vars == <<cows, chat_sessions, beckon, pool, req, now, chat, inbound, emitted, sent, pool, req>>

\* COUNT_COWS_QUERY: SELECT COUNT(*) FROM cows
COUNT_COWS_QUERY(tbl) == Len(tbl)

\* DISTINCT_COW_NAMES_QUERY: SELECT DISTINCT cow_name FROM cows
DISTINCT_COW_NAMES_QUERY(tbl) == { tbl[i].cow_name : i \in 1..Len(tbl) }

\* MAX_COW_ID_QUERY: SELECT COALESCE(MAX(cow_id), 0) FROM cows
MAX_COW_ID_QUERY(tbl) ==
    IF Len(tbl) = 0 THEN 0
    ELSE LET ids == { tbl[i].cow_id : i \in 1..Len(tbl) }
         IN CHOOSE m \in ids : \A x \in ids : x <= m

\* CHECK_FOR_COW_QUERY: SELECT 0 <> (SELECT COUNT(*) FROM cows WHERE cow_name = :cow_name)
CHECK_FOR_COW_QUERY(tbl, cow_name) ==
    IF 0 # Cardinality({ i \in 1..Len(tbl) : tbl[i].cow_name = cow_name }) THEN 1 ELSE 0

\* Mutant of ConstraintViolated: cow_name is no key of the table.
ConstraintViolated_id_only(tbl, row) ==
    \E i \in 1..Len(tbl) : tbl[i].cow_id = row.cow_id

\* Mutant of ConstraintViolated: cow_id is not declared UNIQUE.
ConstraintViolated_name_only(tbl, row) ==
    \E i \in 1..Len(tbl) : tbl[i].cow_name = row.cow_name

\* The constraints of table cows: cow_name PRIMARY KEY, cow_id UNIQUE.
ConstraintViolated(tbl, row) ==
    \/ \E i \in 1..Len(tbl) : tbl[i].cow_name = row.cow_name
    \/ \E i \in 1..Len(tbl) : tbl[i].cow_id = row.cow_id

\* Mutant of INSERT_COW_QUERY: INSERT OR REPLACE, which deletes the rows that
\* conflict with the new one.
INSERT_OR_REPLACE_COW(tbl, cow) ==
    LET row == [cow_name |-> cow.name, cow_id |-> cow.id, cow_color |-> as_ref(cow.color),
                cow_age |-> cow.age, cow_weight |-> cow.weight]
        kept == { i \in 1..Len(tbl) :
                    tbl[i].cow_name # row.cow_name /\ tbl[i].cow_id # row.cow_id }
        F[i \in 0..Len(tbl)] ==
            IF i = 0 THEN <<>>
            ELSE IF i \in kept THEN Append(F[i - 1], tbl[i]) ELSE F[i - 1]
    IN [ok |-> TRUE, table |-> Append(F[Len(tbl)], row)]

\* INSERT_COW_QUERY with the named_params of write_cows for one cow
INSERT_COW_QUERY(tbl, cow) ==
    LET row == [cow_name |-> cow.name, cow_id |-> cow.id, cow_color |-> as_ref(cow.color),
                cow_age |-> cow.age, cow_weight |-> cow.weight]
    IN IF ConstraintViolated(tbl, row)
       THEN [ok |-> FALSE, table |-> tbl]
       ELSE [ok |-> TRUE, table |-> Append(tbl, row)]

\* LIST_COWS_QUERY (SELECT * FROM cows) mapped row by row as list_cows does
list_cows(tbl) ==
    [ i \in 1..Len(tbl) |->
        Cow(tbl[i].cow_name, tbl[i].cow_id, try_from(tbl[i].cow_color),
            tbl[i].cow_age, tbl[i].cow_weight) ]

\* ------------------------------------------------------------------------
\* The allocator: beckon_cows_handler / beckon_cows, one call per worker
\* ------------------------------------------------------------------------

\* Workers that serve requests concurrently.
Workers == {"w1", "w2"}

NoResult == [kind |-> "None", cows |-> <<>>]

\* Slots in which the handlers of SpecPool are invoked.
Reqs == {"r1", "r2"}

\* A slot in which no handler was invoked yet.
NoReq == [pc |-> "idle", route |-> "None", arg |-> <<>>, acquired |-> 0, response |-> "None"]

\* A worker with no call in progress. The last four fields are not variables of
\* beckon_cows: before is the table when the call counted the cows, seen the
\* number of rows when it read the greatest id, interfered whether another call
\* inserted a row since this one began, queries the statements it has executed.
Idle ==
    [pc |-> "idle", desired_number |-> 0, current_cows |-> 0, adjusted_number |-> 0,
     used_names |-> {}, chosen_available_names |-> <<>>, max_id |-> 0,
     new_cows |-> <<>>, next |-> 1, result |-> NoResult,
     before |-> <<>>, seen |-> 0, interfered |-> FALSE, queries |-> <<>>]

\* Mutant of adjusted_number: the request is not clamped to the free capacity.
adjusted_number_unclamped(desired_number, current_cows) == desired_number

\* let adjusted_number = desired_number.min(max_cows - current_cows)
adjusted_number(desired_number, current_cows) ==
    LET max_cows == Cardinality(COW_NAMES)
    IN Min(desired_number, max_cows - current_cows)

\* Mutant of capacity_exhausted: the call never bails.
capacity_exhausted_never(adjusted) == adjusted < 0

\* if adjusted_number == 0 { anyhow::bail!(...) }
capacity_exhausted(adjusted) == adjusted = 0

\* Mutant of available_names: the used names are not taken out of the catalog.
available_names_all(used_names) == COW_NAMES

\* COW_NAMES.difference(&used_names)
available_names(used_names) == COW_NAMES \ used_names

\* A successful insert by worker p is a write the other calls in progress did not make.
OthersInterfered(p, b) ==
    [q \in Workers |->
        IF q # p /\ b[q].pc # "idle" THEN [b[q] EXCEPT !.interfered = TRUE] ELSE b[q]]

\* beckon_cows_handler is entered with a request count and takes its conn from
\* the pool; beckon_cows runs up to the capacity check: count_cows,
\* adjusted_number, bail when it is 0.
BeckonCount(p, n) ==
    /\ beckon[p].pc = "idle"
    /\ LET current == COUNT_COWS_QUERY(cows)
           adjusted == adjusted_number(n, current)
           c == [Idle EXCEPT !.desired_number = n, !.current_cows = current,
                             !.adjusted_number = adjusted, !.before = cows,
                             !.queries = <<"COUNT_COWS_QUERY">>]
       IN beckon' = [beckon EXCEPT ![p] =
            IF capacity_exhausted(adjusted)
            THEN [c EXCEPT !.pc = "done",
                           !.result = [kind |-> "CapacityExhausted", cows |-> <<>>]]
            ELSE [c EXCEPT !.pc = "names"]]
    /\ pool' = pool + 1
    /\ UNCHANGED <<cows, chat_sessions, SessionVars>>

\* list_current_cow_names, then choose_multiple over COW_NAMES.difference(&used_names)
BeckonNames(p) ==
    /\ beckon[p].pc = "names"
    /\ LET used == DISTINCT_COW_NAMES_QUERY(cows)
       IN \E chosen \in choose_multiple(available_names(used), beckon[p].adjusted_number) :
            beckon' = [beckon EXCEPT ![p] =
                [@ EXCEPT !.pc = "maxid", !.used_names = used,
                          !.chosen_available_names = chosen,
                          !.queries = Append(@, "DISTINCT_COW_NAMES_QUERY")]]
    /\ UNCHANGED <<cows, chat_sessions, pool, SessionVars>>

\* Mutant of new_cows: the first new id is max_id itself.
new_cows_from_max(chosen, max_id, draws) ==
    [ i \in 1..Len(chosen) |-> make_cow(chosen[i], max_id + (i - 1), draws[i]) ]

\* new_cows: chosen names enumerated, ids max_id + index + 1, attributes drawn
new_cows(chosen, max_id, draws) ==
    [ i \in 1..Len(chosen) |-> make_cow(chosen[i], max_id + (i - 1) + 1, draws[i]) ]

\* get_current_max_id, then the construction of new_cows
BeckonMaxId(p) ==
    /\ beckon[p].pc = "maxid"
    /\ LET max_id == MAX_COW_ID_QUERY(cows)
           chosen == beckon[p].chosen_available_names
       IN \E draws \in [1..Len(chosen) -> Draws] :
            beckon' = [beckon EXCEPT ![p] =
                [@ EXCEPT !.pc = "write", !.max_id = max_id, !.seen = Len(cows),
                          !.new_cows = new_cows(chosen, max_id, draws),
                          !.next = 1,
                          !.queries = Append(@, "MAX_COW_ID_QUERY")]]
    /\ UNCHANGED <<cows, chat_sessions, pool, SessionVars>>

\* Mutant of write_outcome: the error of write_cows is dropped.
write_outcome_ok_always(ok, cows_written) == [kind |-> "Ok", cows |-> cows_written]

\* The outcome of beckon_cows once write_cows has returned.
write_outcome(ok, cows_written) ==
    IF ok THEN [kind |-> "Ok", cows |-> cows_written]
    ELSE [kind |-> "WriteFailed", cows |-> <<>>]

\* write_cows: one stmt.execute per loop iteration, each its own transaction;
\* `?` leaves the loop at the first failed insert; Ok(new_cows) after the loop.
BeckonWrite(p) ==
    /\ beckon[p].pc = "write"
    /\ LET b == beckon[p]
       IN IF b.next > Len(b.new_cows)
          THEN /\ beckon' = [beckon EXCEPT ![p] =
                    [b EXCEPT !.pc = "done", !.result = write_outcome(TRUE, b.new_cows)]]
               /\ UNCHANGED cows
          ELSE LET ins == INSERT_COW_QUERY(cows, b.new_cows[b.next])
               IN /\ cows' = ins.table
                  /\ beckon' =
                       IF ins.ok
                       THEN [OthersInterfered(p, beckon) EXCEPT ![p] =
                               [b EXCEPT !.next = b.next + 1,
                                         !.queries = Append(@, "INSERT_COW_QUERY")]]
                       ELSE [beckon EXCEPT ![p] =
                               [b EXCEPT !.pc = "done",
                                         !.result = write_outcome(FALSE, b.new_cows),
                                         !.queries = Append(@, "INSERT_COW_QUERY")]]
    /\ UNCHANGED <<chat_sessions, pool, SessionVars>>

\* beckon_cows_handler returns its response and its conn goes out of scope; the
\* worker is free again.
BeckonReturn(p) ==
    /\ beckon[p].pc = "done"
    /\ beckon' = [beckon EXCEPT ![p] = Idle]
    /\ pool' = pool - 1
    /\ UNCHANGED <<cows, chat_sessions, SessionVars>>

\* ------------------------------------------------------------------------
\* The chat request: websocket_cowchat_handler
\* ------------------------------------------------------------------------

\* Bounds of the session model
TicksPerSecond == 1     \* clock ticks of the model per second
MaxTime == 21           \* the clock stops at this tick
OpenWindow == 1         \* ticks that may pass before a chat is requested
NumPhrases == 2         \* templates of COW_PHRASES kept in the model

\* Duration::from_secs and Duration::as_secs over the model's clock
from_secs(n) == n * TicksPerSecond
as_secs(d) == d \div TicksPerSecond

\* Mutant of CLIENT_TIMEOUT: the timeout is shorter than the interval.
CLIENT_TIMEOUT_short == from_secs(3)

\* Mutant of CLIENT_TIMEOUT: the client is given fifteen seconds.
CLIENT_TIMEOUT_late == from_secs(15)

\* const CLIENT_TIMEOUT: Duration = Duration::from_secs(10)
CLIENT_TIMEOUT == from_secs(10)
\* const HEARTBEAT_INTERVAL: Duration = Duration::from_secs(5)
HEARTBEAT_INTERVAL == from_secs(5)

Conns == {"c1"}

\* Request paths of the model: each catalog name as written, with a lowercase
\* initial, and in capitals; and a name that is in no catalog.
Ghost == <<"G","h","o","s","t">>
Paths ==
    COW_NAMES
    \cup { <<to_lowercase(Head(n))>> \o Tail(n) : n \in COW_NAMES }
    \cup { [i \in 1..Len(n) |-> to_uppercase(n[i])] : n \in COW_NAMES }
    \cup { Ghost }

\* cow_name LIKE :cow_name COLLATE NOCASE, for a pattern without % or _
LIKE_NOCASE(value, pattern) ==
    /\ Len(value) = Len(pattern)
    /\ \A i \in 1..Len(value) : to_lowercase(value[i]) = to_lowercase(pattern[i])

\* fn capitalized: first character uppercased, rest of the string as it is
capitalized(s) == <<to_uppercase(Head(s))>> \o Tail(s)

\* Mutant of check_for_cow: the name is compared without regard to case.
check_for_cow_nocase(tbl, cow_name) ==
    \E i \in 1..Len(tbl) : LIKE_NOCASE(tbl[i].cow_name, cow_name)

\* fn check_for_cow: the query's single value compared with 1
check_for_cow(tbl, cow_name) == CHECK_FOR_COW_QUERY(tbl, cow_name) = 1

\* A connection on which no chat was requested, and so no CowChat exists.
NoChat ==
    [path |-> <<>>, response |-> "None", state |-> "Absent",
     cow |-> <<>>, started |-> 0, heartbeat |-> 0, timer |-> 0, fault |-> "None"]

\* Mutant of CowChat_new: the heartbeat is not set to the instant of creation.
CowChat_new_unset_heartbeat(cow, t) ==
    [state |-> "Starting", cow |-> cow, started |-> t, heartbeat |-> 0]

\* CowChat::new(db_pool, cow) at instant t, handed to ws::start
CowChat_new(cow, t) ==
    [state |-> "Starting", cow |-> cow, started |-> t, heartbeat |-> t]

\* websocket_cowchat_handler: the existence check decides between ws::start
\* with a new CowChat and ErrorBadRequest("No such cow ...").
websocket_cowchat_handler(c, path) ==
    /\ chat[c].response = "None"
    /\ LET cow_name == capitalized(path)
           a == CowChat_new(cow_name, now)
       IN chat' = [chat EXCEPT ![c] =
            IF check_for_cow(cows, cow_name)
            THEN [NoChat EXCEPT !.path = path, !.response = "SwitchingProtocols",
                                !.state = a.state, !.cow = a.cow,
                                !.started = a.started, !.heartbeat = a.heartbeat]
            ELSE [NoChat EXCEPT !.path = path, !.response = "BadRequest"]]
    /\ UNCHANGED <<cows, chat_sessions, beckon, pool, req, now, inbound, emitted, sent>>

\* ------------------------------------------------------------------------
\* The session actor: CowChat
\* ------------------------------------------------------------------------

\* The phrase templates of the source, in its order.
PhrasePool ==
    <<
       << "M","o","o","o","!"," ","{","}"," ","u","n","d","e","r","s","t","a",
          "n","d","s","." >>,
       << "M","o","o","o","!"," ","{","}"," ","o","f","f","e","r","s"," ","k",
          "i","n","d"," ","w","o","r","d","s"," ","o","f"," ","e","n","c","o",
          "u","r","a","g","e","m","e","n","t","." >>,
       << "M","o","o","o","!"," ","{","}"," ","t","h","i","n","k","s"," ","i",
          "t","'","s"," ","a","l","l"," ","f","o","r"," ","t","h","e"," ","b",
          "e","s","t","." >>,
       << "M","o","o","o","!"," ","{","}"," ","t","h","i","n","k","s"," ","y",
          "o","u"," ","t","r","i","e","d"," ","y","o","u","r"," ","b","e","s",
          "t","." >>,
       << "M","o","o","o","!"," ","{","}"," ","c","a","n","'","t"," ","r","e",
          "a","l","l","y"," ","d","i","s","a","g","r","e","e","." >>,
       << "M","o","o","o","!"," ","{","}"," ","a","p","p","r","e","c","i","a",
          "t","e","s"," ","y","o","u"," ","m","a","k","i","n","g"," ","a","n",
          " ","e","f","f","o","r","t","." >>
    >>

\* lazy_static COW_PHRASES: Vec<String>
COW_PHRASES == [ k \in 1..NumPhrases |-> PhrasePool[k] ]

\* The positions of s at which pat occurs (str::match_indices, overlaps included).
Occurrences(s, pat) ==
    { i \in 1..(Len(s) - Len(pat) + 1) : \A j \in 1..Len(pat) : s[i + j - 1] = pat[j] }

\* s from position pos on, with the leftmost occurrences of from that do not
\* overlap replaced by to.
RECURSIVE Splice(_, _, _, _, _)
Splice(s, occ, pos, from, to) ==
    LET later == { i \in occ : i >= pos }
    IN IF later = {} THEN SubSeq(s, pos, Len(s))
       ELSE LET first == CHOOSE i \in later : \A j \in later : i <= j
            IN SubSeq(s, pos, first - 1) \o to
               \o Splice(s, occ, first + Len(from), from, to)

\* str::replace(from, to): every non-overlapping match of from, left to right
replace(s, from, to) == Splice(s, Occurrences(s, from), 1, from, to)

\* Mutant of make_cow_phrase: the template is sent as it is.
make_cow_phrase_unfilled(name, template) == template

\* make_cow_phrase, for the template COW_PHRASES.choose picked
make_cow_phrase(name, template) == replace(template, <<"{","}">>, name)

\* ws::Message values and protocol errors a client can make the stream yield
Message(kind, payload) == [kind |-> kind, payload |-> payload]
NoItem == Message("None", <<>>)
Items ==
    { Message("Ping", b) : b \in { <<>>, <<"0">> } }
    \cup { Message("Pong", <<"0">>), Message("Binary", <<"0">>) }
    \cup { Message("Text", t) : t \in { <<"h","i">>, <<"{","}">> } }
    \cup { Message("Close", r) : r \in { <<>>, <<"Normal">> } }
    \cup { Message("Nop", <<>>), Message("ProtocolError", <<>>) }

\* Mutant of refresh_heartbeat: the heartbeat is left as it was.
refresh_heartbeat_kept(actor, t) == actor

\* fn refresh_heartbeat: self.heartbeat = Instant::now()
refresh_heartbeat(actor, t) == [actor EXCEPT !.heartbeat = t]

\* Mutant of stop: the interval is cancelled and the stream is still handled.
stop_timer_only(actor) == [actor EXCEPT !.timer = 0]

\* Mutant of stop: the context is not stopped.
stop_ignored(actor) == actor

\* Context::stop: the actor is stopping, its interval and stream are dropped
stop(actor) == [actor EXCEPT !.state = "Closing", !.timer = 0]

\* Actor::started -> start_beating: run_interval(HEARTBEAT_INTERVAL, ...)
started(c) ==
    /\ chat[c].state = "Starting"
    /\ chat' = [chat EXCEPT ![c] =
            [@ EXCEPT !.state = "Active", !.timer = now + HEARTBEAT_INTERVAL]]
    /\ UNCHANGED <<cows, chat_sessions, beckon, pool, req, now, inbound, emitted, sent>>

\* Mutant of missed_heartbeat: a silence of exactly the timeout counts as missed.
missed_heartbeat_inclusive(t, heartbeat) == t - heartbeat >= CLIENT_TIMEOUT

\* The condition of the interval closure: the client missed its heartbeat.
missed_heartbeat(t, heartbeat) == t - heartbeat > CLIENT_TIMEOUT

\* The closure given to run_interval, run when the interval elapses
start_beating(c) ==
    /\ chat[c].state = "Active"
    /\ now = chat[c].timer
    /\ IF missed_heartbeat(now, chat[c].heartbeat)
       THEN /\ chat' = [chat EXCEPT ![c] = stop(@)]
            /\ emitted' = [emitted EXCEPT ![c] = <<>>]
       ELSE /\ chat' = [chat EXCEPT ![c] = [@ EXCEPT !.timer = @ + HEARTBEAT_INTERVAL]]
            /\ emitted' = [emitted EXCEPT ![c] = << Message("Ping", <<"0">>) >>]
    /\ inbound' = [inbound EXCEPT ![c] = NoItem]
    /\ UNCHANGED <<cows, chat_sessions, beckon, pool, req, now, sent>>

\* Mutant of handle_item: a text message refreshes the heartbeat as a ping does.
handle_item_text_refreshes(actor, item, t, template) ==
    CASE item.kind = "Ping" ->
            [actor |-> refresh_heartbeat(actor, t),
             frames |-> << Message("Pong", item.payload) >>]
      [] item.kind = "Pong" ->
            [actor |-> refresh_heartbeat(actor, t), frames |-> <<>>]
      [] item.kind = "Binary" ->
            [actor |-> actor, frames |-> <<>>]
      [] item.kind = "Text" ->
            [actor |-> refresh_heartbeat(actor, t),
             frames |-> << Message("Text", make_cow_phrase(actor.cow, template)) >>]
      [] item.kind = "Close" ->
            [actor |-> stop(actor), frames |-> << Message("Close", item.payload) >>]
      [] OTHER ->
            [actor |-> stop(actor), frames |-> <<>>]

\* The actor and the frames written after StreamHandler::handle(item) at instant t;
\* template is the phrase make_cow_phrase draws for a text message.
handle_item(actor, item, t, template) ==
    CASE item.kind = "Ping" ->
            [actor |-> refresh_heartbeat(actor, t),
             frames |-> << Message("Pong", item.payload) >>]
      [] item.kind = "Pong" ->
            [actor |-> refresh_heartbeat(actor, t), frames |-> <<>>]
      [] item.kind = "Binary" ->
            [actor |-> actor, frames |-> <<>>]
      [] item.kind = "Text" ->
            [actor |-> actor,
             frames |-> << Message("Text", make_cow_phrase(actor.cow, template)) >>]
      [] item.kind = "Close" ->
            [actor |-> stop(actor), frames |-> << Message("Close", item.payload) >>]
      [] OTHER ->
            [actor |-> stop(actor), frames |-> <<>>]

\* The templates COW_PHRASES.choose can return while item is handled: it is
\* called for a text message only.
Choices(item) ==
    IF item.kind = "Text" THEN { COW_PHRASES[k] : k \in 1..Len(COW_PHRASES) }
    ELSE { <<>> }

\* StreamHandler::handle for one item of the inbound stream; what the client
\* has sent is the caller's to say.
handle(c, item) ==
    /\ chat[c].state = "Active"
    /\ \E template \in Choices(item) :
          LET h == handle_item(chat[c], item, now, template)
          IN /\ chat' = [chat EXCEPT ![c] = h.actor]
             /\ emitted' = [emitted EXCEPT ![c] = h.frames]
    /\ inbound' = [inbound EXCEPT ![c] = item]
    /\ UNCHANGED <<cows, chat_sessions, beckon, pool, req, now>>

\* StreamHandler::finished (not overridden): the inbound stream ended, ctx.stop()
finished(c) ==
    /\ chat[c].state = "Active"
    /\ chat' = [chat EXCEPT ![c] = stop(@)]
    /\ inbound' = [inbound EXCEPT ![c] = NoItem]
    /\ emitted' = [emitted EXCEPT ![c] = <<>>]
    /\ UNCHANGED <<cows, chat_sessions, beckon, pool, req, now, sent>>

\* Mutant of INSERT_CHAT_SESSION: the inner SELECT has no WHERE clause.
INSERT_CHAT_SESSION_all_cows(sessions, tbl, i, cow_name, duration) ==
    sessions \o [ k \in 1..Len(tbl) |->
                    [chat_session_id |-> Len(sessions) + k,
                     cow_id |-> tbl[k].cow_id, duration |-> duration] ]

\* INSERT_CHAT_SESSION: one row per cow whose name matches, in rowid order
RECURSIVE INSERT_CHAT_SESSION(_, _, _, _, _)
INSERT_CHAT_SESSION(sessions, tbl, i, cow_name, duration) ==
    IF i > Len(tbl) THEN sessions
    ELSE INSERT_CHAT_SESSION(
            IF LIKE_NOCASE(tbl[i].cow_name, cow_name)
            THEN Append(sessions, [chat_session_id |-> Len(sessions) + 1,
                                   cow_id |-> tbl[i].cow_id, duration |-> duration])
            ELSE sessions,
            tbl, i + 1, cow_name, duration)

\* Mutant of record_session_in_db: the duration runs until the session is recorded.
record_session_until_now(sessions, tbl, actor) ==
    INSERT_CHAT_SESSION(sessions, tbl, 1, actor.cow, as_secs(now - actor.started))

\* fn record_session_in_db: duration = (heartbeat - started).as_secs()
record_session_in_db(sessions, tbl, actor) ==
    LET duration == as_secs(actor.heartbeat - actor.started)
    IN INSERT_CHAT_SESSION(sessions, tbl, 1, actor.cow, duration)

\* What can go wrong in record_session_in_db: db_pool.get(), prepare_cached,
\* stmt.execute; "None" when all three succeed.
Faults == {"None", "PoolGet", "Prepare", "Execute"}

\* How record_session_in_db ends under a fault: get() and prepare_cached() are
\* unwrapped, so their Err panics; the Err of execute is logged.
record_session_outcome(fault) ==
    CASE fault = "None" -> "Returned"
      [] fault = "Execute" -> "Returned"
      [] fault = "PoolGet" -> "Panicked"
      [] fault = "Prepare" -> "Panicked"

\* Actor::stopped: record_session_in_db runs; the actor is gone when it
\* returns, and the panic unwinds out of stopped when it does not.
stopped(c, fault) ==
    /\ chat[c].state = "Closing"
    /\ chat_sessions' =
          IF fault = "None" THEN record_session_in_db(chat_sessions, cows, chat[c])
          ELSE chat_sessions
    /\ chat' = [chat EXCEPT ![c] =
          [@ EXCEPT !.fault = fault,
                    !.state = IF record_session_outcome(fault) = "Returned"
                              THEN "Closed" ELSE "Aborted"]]
    /\ UNCHANGED <<cows, beckon, pool, req, now, inbound, emitted, sent>>

\* Time passes: never past a due interval of an active session, nor while an
\* actor is being started or stopped (both happen within one poll of its context).
Tick ==
    /\ now < MaxTime
    /\ \A c \in Conns : chat[c].state \notin {"Starting", "Closing"}
    /\ \A c \in Conns : chat[c].state = "Active" => now < chat[c].timer
    /\ \/ \E c \in Conns : chat[c].state = "Active"
       \/ /\ \A c \in Conns : chat[c].state = "Absent" /\ chat[c].response = "None"
          /\ now < OpenWindow
    /\ now' = now + 1
    /\ UNCHANGED <<cows, chat_sessions, beckon, pool, req, chat, inbound, emitted, sent>>

\* ------------------------------------------------------------------------
\* Specifications
\* ------------------------------------------------------------------------

\* The database as init_db_schema creates it, and no request in progress.
Init ==
    /\ cows = <<>>
    /\ chat_sessions = <<>>
    /\ beckon = [p \in Workers |-> Idle]
    /\ now = 0
    /\ chat = [c \in Conns |-> NoChat]
    /\ inbound = [c \in Conns |-> NoItem]
    /\ emitted = [c \in Conns |-> <<>>]
    /\ sent = <<>>
    /\ pool = 0
    /\ req = [r \in Reqs |-> NoReq]

\* Request counts of the model: the least, the next and the greatest valid count.
Requests == {MIN_COUNT, MIN_COUNT + 1, MAX_COUNT}

\* Concurrent beckon calls, statement by statement.
Next ==
    \/ \E p \in Workers, n \in Requests : BeckonCount(p, n)
    \/ \E p \in Workers : BeckonNames(p)
    \/ \E p \in Workers : BeckonMaxId(p)
    \/ \E p \in Workers : BeckonWrite(p)
    \/ \E p \in Workers : BeckonReturn(p)

Spec == Init /\ [][Next]_vars

\* fn write_cows run to its end without another writer in between
RECURSIVE write_cows(_, _, _)
write_cows(tbl, cs, i) ==
    IF i > Len(cs) THEN [ok |-> TRUE, table |-> tbl]
    ELSE LET ins == INSERT_COW_QUERY(tbl, cs[i])
         IN IF ins.ok THEN write_cows(ins.table, cs, i + 1)
            ELSE [ok |-> FALSE, table |-> ins.table]

\* fn beckon_cows run to its end without another writer in between: every
\* outcome of the call with count n on table tbl whose draws are in D, with the
\* table it leaves.
beckon_cows(tbl, n, D) ==
    LET adjusted == adjusted_number(n, COUNT_COWS_QUERY(tbl))
        used == DISTINCT_COW_NAMES_QUERY(tbl)
        max_id == MAX_COW_ID_QUERY(tbl)
    IN IF capacity_exhausted(adjusted)
       THEN { [result |-> [kind |-> "CapacityExhausted", cows |-> <<>>], table |-> tbl] }
       ELSE { LET cs == new_cows(chosen.names, max_id, chosen.draws)
                  w == write_cows(tbl, cs, 1)
              IN [result |-> write_outcome(w.ok, cs), table |-> w.table] :
              chosen \in UNION { { [names |-> names, draws |-> draws] :
                                   draws \in [1..Len(names) -> D] } :
                                 names \in choose_multiple(available_names(used), adjusted) } }

\* A chat is requested of a database that one beckon call for two cows has
\* filled; the chat reads no attribute of a cow, so one draw stands for all.
InitChat ==
    /\ cows \in { o.table :
                  o \in beckon_cows(<<>>, MIN_COUNT + 1, { CHOOSE d \in Draws : TRUE }) }
    /\ chat_sessions = <<>>
    /\ beckon = [p \in Workers |-> Idle]
    /\ now = 0
    /\ chat = [c \in Conns |-> NoChat]
    /\ inbound = [c \in Conns |-> NoItem]
    /\ emitted = [c \in Conns |-> <<>>]
    /\ sent = <<>>
    /\ pool = 0
    /\ req = [r \in Reqs |-> NoReq]

\* One chat connection from its request to the end of its session.
NextChat ==
    \/ \E c \in Conns, path \in Paths : websocket_cowchat_handler(c, path)
    \/ \E c \in Conns : started(c)
    \/ \E c \in Conns : start_beating(c)
    \/ \E c \in Conns, item \in Items : handle(c, item) /\ UNCHANGED sent
    \/ \E c \in Conns : finished(c)
    \/ \E c \in Conns : stopped(c, "None")
    \/ Tick

SpecChat == InitChat /\ [][NextChat]_vars

\* The same connection over a store that can fail when the session is recorded.
NextTeardown ==
    \/ \E c \in Conns, path \in Paths : websocket_cowchat_handler(c, path)
    \/ \E c \in Conns : started(c)
    \/ \E c \in Conns : start_beating(c)
    \/ \E c \in Conns, item \in Items : handle(c, item) /\ UNCHANGED sent
    \/ \E c \in Conns : finished(c)
    \/ \E c \in Conns, fault \in Faults : stopped(c, fault)
    \/ Tick

SpecTeardown == InitChat /\ [][NextTeardown]_vars

\* The frames of the session scenario, in the order the client sends them.
ScenarioFrames == << Message("Ping", <<>>), Message("Text", <<"h","i">>) >>

\* The client of the scenario sends its next frame, and the session handles it.
send(c) ==
    /\ Len(sent) < Len(ScenarioFrames)
    /\ handle(c, ScenarioFrames[Len(sent) + 1])
    /\ sent' = Append(sent, [kind |-> ScenarioFrames[Len(sent) + 1].kind, at |-> now])

\* The session scenario: a chat is opened, the client sends one ping and then
\* one text frame, and nothing more; the stream stays open.
NextScenario ==
    \/ \E c \in Conns, path \in Paths : websocket_cowchat_handler(c, path)
    \/ \E c \in Conns : started(c)
    \/ \E c \in Conns : start_beating(c)
    \/ \E c \in Conns : send(c)
    \/ \E c \in Conns : stopped(c, "None")
    \/ Tick

SpecScenario == InitChat /\ [][NextScenario]_vars

\* ------------------------------------------------------------------------
\* Handler invocations and the connection pool
\* ------------------------------------------------------------------------

\* The routes whose handlers take a connection from db_pool.
Routes == {"count", "list", "beckon", "chat"}

\* The arguments of the model for a route: a request count; the path of the
\* first catalog name, as written or with a lowercase initial, or of a name
\* that is in no catalog; or none.
Args(route) ==
    CASE route = "beckon" -> { <<n>> : n \in Requests }
      [] route = "chat" -> { NamePool[1], <<to_lowercase(Head(NamePool[1]))>> \o Tail(NamePool[1]),
                             Ghost }
      [] OTHER -> { <<>> }

\* Where an invocation can fail apart from its own checks: db_pool.get()
\* returns Err, the first SELECT of the handler returns Err, or the first
\* INSERT of write_cows returns Err.
HandlerFaults == {"None", "PoolGet", "Query", "Write"}

\* db_pool.get(): one more connection is checked out, or Err and none is.
get(checked_out, fault) ==
    IF fault = "PoolGet" THEN [ok |-> FALSE, pool |-> checked_out]
    ELSE [ok |-> TRUE, pool |-> checked_out + 1]

\* Mutant of drop: the connection is given back only when the handler succeeds.
drop_on_success(checked_out, response) ==
    IF response \in {"Ok", "SwitchingProtocols"} THEN checked_out - 1 ELSE checked_out

\* conn goes out of scope at the end of the handler, whichever response the
\* handler returns: the pooled connection goes back to the pool.
drop(checked_out, response) == checked_out - 1

\* The body of a handler after db_pool.get(), run to its end: the outcomes of
\* route with arg on table tbl, each with the table it leaves and, for a chat
\* that is accepted, the CowChat that ws::start is given.
serve(route, arg, tbl, fault, t) ==
    LET failed == [response |-> "QueryFailed", table |-> tbl, actor |-> NoChat]
    IN CASE route \in {"count", "list"} ->
              IF fault = "Query" THEN { failed }
              ELSE { [response |-> "Ok", table |-> tbl, actor |-> NoChat] }
         [] route = "beckon" ->
              IF fault = "Query" THEN { failed }
              ELSE { IF o.result.kind = "CapacityExhausted"
                     THEN [response |-> "CapacityExhausted", table |-> tbl, actor |-> NoChat]
                     ELSE IF fault = "Write"
                     THEN [response |-> "WriteFailed", table |-> tbl, actor |-> NoChat]
                     ELSE [response |-> o.result.kind, table |-> o.table, actor |-> NoChat] :
                     o \in beckon_cows(tbl, arg[1], { CHOOSE d \in Draws : TRUE }) }
         [] route = "chat" ->
              LET cow_name == capitalized(arg)
                  a == CowChat_new(cow_name, t)
              IN IF fault = "Query" THEN { failed }
                 ELSE IF check_for_cow(tbl, cow_name)
                 THEN { [response |-> "SwitchingProtocols", table |-> tbl,
                         actor |-> [NoChat EXCEPT !.path = arg,
                                                  !.response = "SwitchingProtocols",
                                                  !.state = a.state, !.cow = a.cow,
                                                  !.started = a.started,
                                                  !.heartbeat = a.heartbeat]] }
                 ELSE { [response |-> "BadRequest", table |-> tbl,
                         actor |-> [NoChat EXCEPT !.path = arg, !.response = "BadRequest"]] }

\* A handler is entered in slot r: let conn = db_pool.get().map_err(..)?
\* When get fails the handler returns at once with the error.
enter(r, route, arg, fault) ==
    /\ req[r].pc = "idle"
    /\ LET g == get(pool, fault)
       IN /\ pool' = g.pool
          /\ req' = [req EXCEPT ![r] =
                IF g.ok
                THEN [pc |-> "serving", route |-> route, arg |-> arg,
                      acquired |-> 1, response |-> "None"]
                ELSE [pc |-> "idle", route |-> route, arg |-> <<>>,
                      acquired |-> 0, response |-> "GetFailed"]]
    /\ UNCHANGED <<cows, chat_sessions, beckon, now, chat, inbound, emitted, sent>>

\* The handler of slot r runs its body and returns its response, which
\* consumes its arguments; conn is dropped as the handler returns. An accepted chat starts its actor on
\* connection c.
leave(r, c, fault) ==
    /\ req[r].pc = "serving"
    /\ \E o \in serve(req[r].route, req[r].arg, cows, fault, now) :
          /\ cows' = o.table
          /\ chat' = IF req[r].route = "chat" /\ o.response # "QueryFailed"
                     THEN [chat EXCEPT ![c] = o.actor]
                     ELSE chat
          /\ pool' = drop(pool, o.response)
          /\ req' = [req EXCEPT ![r].pc = "idle", ![r].arg = <<>>,
                                ![r].response = o.response]
    /\ UNCHANGED <<chat_sessions, beckon, now, inbound, emitted, sent>>

\* Handlers of all four routes, two at a time, each between taking its
\* connection and returning.
NextPool ==
    \/ \E r \in Reqs, route \in Routes, fault \in {"None", "PoolGet"} :
          \E arg \in Args(route) : enter(r, route, arg, fault)
    \/ \E r \in Reqs, c \in Conns, fault \in HandlerFaults \ {"PoolGet"} :
          leave(r, c, fault)

SpecPool == Init /\ [][NextPool]_vars

\* ------------------------------------------------------------------------
\* Properties of the allocator (specification Spec)
\* ------------------------------------------------------------------------

CatalogCount == Cardinality(COW_NAMES)

Returned(p) == beckon[p].pc = "done"

\* The greatest cow_id among the first n rows of the table, 0 for none.
GreatestId(n) ==
    IF n = 0 THEN 0
    ELSE CHOOSE m \in { cows[i].cow_id : i \in 1..n } :
            \A i \in 1..n : cows[i].cow_id <= m

\* C1: a beckon call for n cows on a table of c rows, during which no other
\* call inserted a row, returns exactly min(n, catalog size - c) cows, and
\* fails with CapacityExhausted exactly when that number is 0.
C1_ReturnsMinOfRequestAndCapacity ==
    \A p \in Workers :
        (Returned(p) /\ ~beckon[p].interfered) =>
            LET c == Len(beckon[p].before)
                n == beckon[p].desired_number
                expected == IF n <= CatalogCount - c THEN n ELSE CatalogCount - c
            IN /\ (beckon[p].result.kind = "CapacityExhausted") <=> (expected = 0)
               /\ expected > 0 =>
                    /\ beckon[p].result.kind = "Ok"
                    /\ Len(beckon[p].result.cows) = expected

\* A call that was clamped: it asked for more than the free capacity of a table
\* that was not empty, and returned the cows that were left.
C1_Witness ==
    \E p \in Workers :
        /\ Returned(p) /\ ~beckon[p].interfered
        /\ beckon[p].result.kind = "Ok"
        /\ Len(beckon[p].before) > 0
        /\ Len(beckon[p].result.cows) = CatalogCount - Len(beckon[p].before)
        /\ Len(beckon[p].result.cows) < beckon[p].desired_number

\* C2: the names a beckon call selects, which are the names of the cows it
\* returns, are names of the catalog, pairwise distinct, and none is a name the
\* call read as used.
C2_NamesFromCatalogDistinctUnused ==
    \A p \in Workers :
        LET names == beckon[p].chosen_available_names
        IN /\ beckon[p].pc \in {"maxid", "write", "done"} =>
                /\ \A i \in 1..Len(names) : names[i] \in COW_NAMES
                /\ \A i, j \in 1..Len(names) : i # j => names[i] # names[j]
                /\ \A i \in 1..Len(names) : names[i] \notin beckon[p].used_names
           /\ beckon[p].result.kind = "Ok" =>
                /\ Len(beckon[p].result.cows) = Len(names)
                /\ \A i \in 1..Len(names) : beckon[p].result.cows[i].name = names[i]

\* A call that read a used name returned two cows.
C2_Witness ==
    \E p \in Workers :
        /\ beckon[p].result.kind = "Ok"
        /\ Len(beckon[p].result.cows) >= 1
        /\ beckon[p].used_names # {}

\* C3: the ids of the cows of one beckon call are, in order, m+1, m+2, ...,
\* where m is the greatest id of the table as the call read it (0 for an empty
\* table): they increase strictly and exceed every id the call found.
C3_IdsFollowMaxId ==
    \A p \in Workers :
        beckon[p].pc \in {"write", "done"} /\ beckon[p].result.kind # "CapacityExhausted" =>
            LET m == GreatestId(beckon[p].seen)
                cs == beckon[p].new_cows
            IN /\ \A i \in 1..Len(cs) : cs[i].id = m + i
               /\ \A i, j \in 1..Len(cs) : i < j => cs[i].id < cs[j].id
               /\ \A i \in 1..Len(cs), k \in 1..beckon[p].seen : cs[i].id > cows[k].cow_id
               /\ beckon[p].result.kind = "Ok" => beckon[p].result.cows = cs

\* A call returned a cow after reading a table that was not empty, and another
\* call has given ids to two cows after reading a table that was not empty.
C3_Witness ==
    \E p, q \in Workers :
        /\ beckon[p].result.kind = "Ok"
        /\ Len(beckon[p].result.cows) >= 1
        /\ beckon[p].seen > 0
        /\ beckon[p].result.cows[1].id > 1
        /\ beckon[q].pc \in {"write", "done"}
        /\ Len(beckon[q].new_cows) = 2
        /\ beckon[q].seen > 0

\* C4: after a successful beckon call with no other writer, list_cows gives the
\* cows that were listed before the call followed by the cows the call
\* returned, each once.
C4_ListIsBeforePlusReturned ==
    \A p \in Workers :
        (Returned(p) /\ beckon[p].result.kind = "Ok" /\ ~beckon[p].interfered) =>
            LET listed == list_cows(cows)
            IN /\ listed = list_cows(beckon[p].before) \o beckon[p].result.cows
               /\ \A i, j \in 1..Len(listed) : i # j => listed[i] # listed[j]

\* A successful call on a table that was not empty, with a patched cow returned.
C4_Witness ==
    \E p \in Workers :
        /\ Returned(p) /\ beckon[p].result.kind = "Ok" /\ ~beckon[p].interfered
        /\ Len(beckon[p].before) > 0
        /\ \E i \in 1..Len(beckon[p].result.cows) :
              beckon[p].result.cows[i].color = "BlackWithWhitePatches"

\* C5: a beckon call on a table that holds as many cows as the catalog has
\* names fails with CapacityExhausted whatever its count, having executed the
\* count query only, and the table is as it was.
C5_FullTableShortCircuits ==
    \A p \in Workers :
        (Returned(p) /\ Len(beckon[p].before) = CatalogCount) =>
            /\ beckon[p].result.kind = "CapacityExhausted"
            /\ beckon[p].queries = << "COUNT_COWS_QUERY" >>
            /\ beckon[p].used_names = {} /\ beckon[p].max_id = 0
            /\ beckon[p].new_cows = <<>>
            /\ cows = beckon[p].before

\* Calls with the least and with the greatest count have both failed on a full table.
C5_Witness ==
    /\ Len(cows) = CatalogCount
    /\ \E p, q \in Workers :
        /\ Returned(p) /\ Returned(q)
        /\ beckon[p].result.kind = "CapacityExhausted"
        /\ beckon[q].result.kind = "CapacityExhausted"
        /\ beckon[p].desired_number = MIN_COUNT
        /\ beckon[q].desired_number = MAX_COUNT

\* C6: the table never holds more cows than the catalog has names.
C6_CountWithinCatalog == Len(cows) <= CatalogCount

\* The table is full after two calls interleaved and one of them failed partway.
C6_Witness ==
    /\ Len(cows) = CatalogCount
    /\ \E p \in Workers :
        /\ beckon[p].result.kind = "WriteFailed"
        /\ beckon[p].next > 1

\* The table has no two rows with one cow_name, nor two with one cow_id.
NoDuplicates ==
    \A i, j \in 1..Len(cows) :
        i # j => cows[i].cow_name # cows[j].cow_name /\ cows[i].cow_id # cows[j].cow_id

\* Worker p executes an insert whose cow has a name or an id of a row of the table.
ConflictingInsert(p) ==
    /\ beckon[p].pc = "write"
    /\ Len(beckon'[p].queries) > Len(beckon[p].queries)
    /\ \E i \in 1..Len(cows) :
          \/ cows[i].cow_name = beckon[p].new_cows[beckon[p].next].name
          \/ cows[i].cow_id = beckon[p].new_cows[beckon[p].next].id

\* C7: under every interleaving of beckon calls the table has no duplicate name
\* and no duplicate id; an insert that would make one leaves the table as it is
\* and its call fails with WriteFailed.
C7_ConflictingInsertRejected ==
    /\ []NoDuplicates
    /\ [][\A p \in Workers :
            ConflictingInsert(p) =>
                /\ cows' = cows
                /\ beckon'[p].pc = "done"
                /\ beckon'[p].result.kind = "WriteFailed"]_vars

\* Two calls raced: one wrote a row, the other's insert of the same id failed.
C7_Witness ==
    \E p, q \in Workers :
        /\ p # q
        /\ beckon[p].result.kind = "WriteFailed"
        /\ beckon[q].pc \in {"write", "done"} /\ beckon[q].next > 1
        /\ beckon[p].max_id = beckon[q].max_id
        /\ beckon[p].new_cows[beckon[p].next].name # beckon[q].new_cows[1].name

\* ------------------------------------------------------------------------
\* Properties of the chat request and the session (specification SpecChat)
\* ------------------------------------------------------------------------

\* Some cow of the table has this name.
Present(name) == \E i \in 1..Len(cows) : cows[i].cow_name = name

\* C8: a chat request whose name, as the handler normalizes it, is the name of
\* no cow is answered with the entity-not-found rejection (400) and no CowChat
\* exists for the connection; a CowChat exists only for a request that was
\* accepted, and its cow is in the table.
C8_AbsentCowRejectedWithoutSession ==
    \A c \in Conns :
        /\ (chat[c].response # "None"
              /\ ~Present(<<to_uppercase(Head(chat[c].path))>> \o Tail(chat[c].path))) =>
                /\ chat[c].response = "BadRequest"
                /\ chat[c].state = "Absent"
                /\ chat[c].cow = <<>> /\ chat[c].started = 0
                /\ chat[c].heartbeat = 0 /\ chat[c].timer = 0
        /\ chat[c].state # "Absent" =>
                /\ chat[c].response = "SwitchingProtocols"
                /\ Present(chat[c].cow)

\* The chat with Ghost was requested after time had passed, and rejected.
C8_Witness ==
    \E c \in Conns :
        /\ chat[c].path = Ghost
        /\ chat[c].response = "BadRequest"
        /\ chat[c].state = "Absent"
        /\ now > 0

\* A step in which the active session of connection c handles item.
Handled(c, item) ==
    /\ chat[c].state = "Active"
    /\ now' = now
    /\ inbound'[c] = item
    /\ <<chat, inbound, emitted>>' # <<chat, inbound, emitted>>

\* C9: an active session that handles a ping has its heartbeat at the current
\* instant and has written exactly one pong, with the ping's payload; one that
\* handles a pong has its heartbeat at the current instant and has written
\* nothing; the session is active after either.
C9_PingAndPongRefreshHeartbeat ==
    [][\A c \in Conns, item \in Items :
         (Handled(c, item) /\ item.kind \in {"Ping", "Pong"}) =>
            /\ chat'[c].heartbeat = now
            /\ chat'[c].state = "Active"
            /\ chat'[c].started = chat[c].started
            /\ item.kind = "Ping" => emitted'[c] = << Message("Pong", item.payload) >>
            /\ item.kind = "Pong" => emitted'[c] = <<>>]_vars

\* A ping was handled later than the session began: the pong is written and the
\* heartbeat is the current instant.
C9_Witness ==
    \E c \in Conns :
        /\ chat[c].state = "Active"
        /\ inbound[c].kind = "Ping"
        /\ emitted[c] = << Message("Pong", inbound[c].payload) >>
        /\ chat[c].heartbeat = now
        /\ chat[c].heartbeat > chat[c].started

\* text is template with its placeholder, the only one, replaced by name.
Instance(text, template, name) ==
    \E i \in 1..(Len(template) - 1) :
        /\ template[i] = "{" /\ template[i + 1] = "}"
        /\ text = SubSeq(template, 1, i - 1) \o name \o SubSeq(template, i + 2, Len(template))

\* name occurs in text.
Contains(text, name) ==
    \E i \in 1..(Len(text) - Len(name) + 1) : SubSeq(text, i, i + Len(name) - 1) = name

\* C10: an active session that handles a text message, whatever its content,
\* has written exactly one text frame: a template of the phrase catalog with
\* the placeholder replaced by the name of the session's cow, so that the name
\* occurs in it.
C10_TextAnsweredWithPhrase ==
    [][\A c \in Conns, item \in Items :
         (Handled(c, item) /\ item.kind = "Text") =>
            /\ Len(emitted'[c]) = 1
            /\ emitted'[c][1].kind = "Text"
            /\ \E k \in 1..Len(COW_PHRASES) :
                  Instance(emitted'[c][1].payload, COW_PHRASES[k], chat[c].cow)
            /\ Contains(emitted'[c][1].payload, chat[c].cow)
            /\ chat'[c].state = "Active"]_vars

\* A text message that is itself the placeholder was answered with a phrase
\* that names the cow.
C10_Witness ==
    \E c \in Conns :
        /\ chat[c].state = "Active"
        /\ inbound[c] = Message("Text", <<"{","}">>)
        /\ Len(emitted[c]) = 1
        /\ emitted[c][1].kind = "Text"
        /\ Contains(emitted[c][1].payload, chat[c].cow)
        /\ Len(emitted[c][1].payload) > Len(chat[c].cow)

\* ------------------------------------------------------------------------
\* Properties of the liveness timer and of the end of a session
\* ------------------------------------------------------------------------

Active(c) == chat[c].state = "Active"

\* The time since the last heartbeat of connection c.
Silence(c) == now - chat[c].heartbeat

\* C11: an active session is never more than 15 seconds past its last
\* heartbeat: text and binary frames, however many, move neither the heartbeat
\* nor the timer; no time passes at a due tick that finds more than 10 seconds
\* since the heartbeat; and the timer's callback at such a tick stops the
\* session.
C11_SilentSessionClosedByTimer ==
    /\ [](\A c \in Conns :
            Active(c) => now <= chat[c].timer /\ Silence(c) <= from_secs(15))
    /\ [][\A c \in Conns :
            /\ \A item \in Items :
                  (Handled(c, item) /\ item.kind \in {"Text", "Binary"}) =>
                      /\ chat'[c].heartbeat = chat[c].heartbeat
                      /\ chat'[c].timer = chat[c].timer
            /\ (Active(c) /\ now = chat[c].timer /\ Silence(c) > from_secs(10)) =>
                  now' = now
            /\ (start_beating(c) /\ Silence(c) > from_secs(10)) =>
                  chat'[c].state = "Closing"]_vars

\* A session that had a heartbeat after it began was stopped, with nothing
\* written, at the tick 15 seconds after that heartbeat.
C11_Witness ==
    \E c \in Conns :
        /\ chat[c].state = "Closing"
        /\ inbound[c] = NoItem /\ emitted[c] = <<>>
        /\ chat[c].heartbeat > chat[c].started
        /\ Silence(c) = from_secs(15)

\* The rows of chat_sessions that refer to the cow of connection c.
RecordsOf(c) ==
    { i \in 1..Len(chat_sessions) :
        \E k \in 1..Len(cows) :
            /\ cows[k].cow_name = chat[c].cow
            /\ cows[k].cow_id = chat_sessions[i].cow_id }

\* C12: chat_sessions has no row for a session that has not ended, and exactly
\* one, for the session's cow, once it has; the table changes only in the step
\* that ends a session, which appends one row, whether the session was stopped
\* by the timer, a close frame, an unrecognized item or the end of the stream.
C12_RecordedExactlyOnce ==
    /\ [](\A c \in Conns :
            /\ chat[c].state \in {"Absent", "Starting", "Active", "Closing"} =>
                  chat_sessions = <<>>
            /\ chat[c].state = "Closed" =>
                  Len(chat_sessions) = 1 /\ RecordsOf(c) = {1})
    /\ [][chat_sessions' # chat_sessions =>
            \E c \in Conns :
                /\ chat[c].state = "Closing" /\ chat'[c].state = "Closed"
                /\ Len(chat_sessions') = Len(chat_sessions) + 1
                /\ SubSeq(chat_sessions', 1, Len(chat_sessions)) = chat_sessions]_vars

\* A session that a protocol error ended, after a heartbeat, has its one row.
C12_Witness ==
    \E c \in Conns :
        /\ chat[c].state = "Closed"
        /\ inbound[c].kind = "ProtocolError"
        /\ chat[c].heartbeat > chat[c].started
        /\ Len(chat_sessions) = 1

\* ------------------------------------------------------------------------
\* The session scenario (specification SpecScenario)
\* ------------------------------------------------------------------------

\* The scenario has run to its end: the ping and the text frame were sent, and
\* the session, left alone, was stopped by the timer and recorded.
ScenarioDone(c) == chat[c].state = "Closed" /\ Len(sent) = Len(ScenarioFrames)

\* Whole seconds between the request that opened the session and its closure.
ElapsedSeconds(c) == as_secs(now - chat[c].started)

\* C13, as claimed: at the end of the scenario the one session record is for
\* the session's cow and its duration is within one check interval of the time
\* between open and closure.
C13_DurationIsElapsedTime ==
    \A c \in Conns :
        ScenarioDone(c) =>
            /\ Len(chat_sessions) = 1 /\ RecordsOf(c) = {1}
            /\ chat_sessions[1].duration - ElapsedSeconds(c) <= as_secs(HEARTBEAT_INTERVAL)
            /\ ElapsedSeconds(c) - chat_sessions[1].duration <= as_secs(HEARTBEAT_INTERVAL)

\* C13, amended: at the end of the scenario the one session record is for the
\* session's cow and its duration is the whole seconds between open and the
\* ping; closure comes more than 10 and at most 15 seconds after the ping, so
\* the duration is more than one check interval short of the elapsed time.
C13_DurationIsTimeToLastHeartbeat ==
    \A c \in Conns :
        ScenarioDone(c) =>
            /\ Len(chat_sessions) = 1 /\ RecordsOf(c) = {1}
            /\ chat_sessions[1].duration = as_secs(sent[1].at - chat[c].started)
            /\ now - sent[1].at > from_secs(10)
            /\ now - sent[1].at <= from_secs(15)
            /\ ElapsedSeconds(c) - chat_sessions[1].duration > as_secs(HEARTBEAT_INTERVAL)

\* The scenario ended with the ping later than the open and the text later
\* than the ping.
C13_Witness ==
    \E c \in Conns :
        /\ ScenarioDone(c)
        /\ sent[1].kind = "Ping" /\ sent[2].kind = "Text"
        /\ sent[1].at > chat[c].started
        /\ sent[2].at > sent[1].at
        /\ chat_sessions[1].duration > 0

\* ------------------------------------------------------------------------
\* The end of a session over a store that can fail (specification SpecTeardown)
\* ------------------------------------------------------------------------

\* C14, as claimed: whichever step of writing the session record fails (no
\* pooled connection, statement preparation, the insert), Actor::stopped
\* returns and the session is closed; nothing is raised out of it.
C14_RecordFailureSwallowed ==
    \A c \in Conns :
        chat[c].fault \in {"PoolGet", "Prepare", "Execute"} =>
            chat[c].state = "Closed"

\* ------------------------------------------------------------------------
\* More properties of the chat request and the session (specification SpecChat)
\* ------------------------------------------------------------------------

\* C15, as claimed: a chat request whose path differs from the name of a cow of
\* the table in letter case only is accepted, for the cow under the name the
\* table has.
C15_CaseInsensitiveEligibility ==
    \A c \in Conns :
        \A k \in 1..Len(cows) :
            (chat[c].response # "None" /\ LIKE_NOCASE(cows[k].cow_name, chat[c].path)) =>
                /\ chat[c].response = "SwitchingProtocols"
                /\ chat[c].cow = cows[k].cow_name

\* C16: an active session that handles a text message or a binary message has
\* the heartbeat and the start instant it had and is still active; a binary
\* message has nothing written for it.
C16_TextAndBinaryLeaveHeartbeat ==
    [][\A c \in Conns, item \in Items :
         (Handled(c, item) /\ item.kind \in {"Text", "Binary"}) =>
            /\ chat'[c].heartbeat = chat[c].heartbeat
            /\ chat'[c].started = chat[c].started
            /\ chat'[c].state = "Active"
            /\ item.kind = "Binary" => emitted'[c] = <<>>]_vars

\* A text message was answered at a later instant than the last heartbeat,
\* which is itself later than the start of the session.
C16_Witness ==
    \E c \in Conns :
        /\ Active(c)
        /\ inbound[c].kind = "Text"
        /\ Len(emitted[c]) = 1
        /\ chat[c].heartbeat > chat[c].started
        /\ now > chat[c].heartbeat

\* C17: an active session that handles a close frame has written exactly one
\* close frame, with the reason it was given, and is stopping; one that handles
\* an item that is no ping, pong, binary, text or close (a protocol error
\* among them) has written nothing and is stopping.
C17_CloseEchoedOthersStop ==
    [][\A c \in Conns, item \in Items :
         /\ (Handled(c, item) /\ item.kind = "Close") =>
                /\ emitted'[c] = << Message("Close", item.payload) >>
                /\ chat'[c].state = "Closing"
         /\ (Handled(c, item)
               /\ item.kind \notin {"Ping", "Pong", "Binary", "Text", "Close"}) =>
                /\ emitted'[c] = <<>>
                /\ chat'[c].state = "Closing"]_vars

\* A close frame with a reason was echoed and the session is stopping.
C17_Witness ==
    \E c \in Conns :
        /\ chat[c].state = "Closing"
        /\ inbound[c] = Message("Close", <<"Normal">>)
        /\ emitted[c] = << Message("Close", <<"Normal">>) >>
        /\ now > chat[c].started

\* C18: the timer of an active session is due every 5 seconds from its start;
\* its callback stops the session and writes nothing when more than 10 seconds
\* have passed since the heartbeat, and otherwise writes exactly one ping,
\* leaves the session active and is due again 5 seconds later.
C18_TickClosesOrProbes ==
    /\ [](\A c \in Conns :
            Active(c) =>
                /\ (chat[c].timer - chat[c].started) % from_secs(5) = 0
                /\ now <= chat[c].timer /\ chat[c].timer - now <= from_secs(5))
    /\ [][\A c \in Conns :
            start_beating(c) =>
                IF Silence(c) > from_secs(10)
                THEN chat'[c].state = "Closing" /\ emitted'[c] = <<>>
                ELSE /\ chat'[c].state = "Active"
                     /\ emitted'[c] = << Message("Ping", <<"0">>) >>
                     /\ chat'[c].timer = chat[c].timer + from_secs(5)
                     /\ chat'[c].heartbeat = chat[c].heartbeat]_vars

\* The callback ran exactly 10 seconds after the heartbeat: the ping is
\* written and the session is active.
C18_Witness ==
    \E c \in Conns :
        /\ Active(c)
        /\ inbound[c] = NoItem
        /\ emitted[c] = << Message("Ping", <<"0">>) >>
        /\ chat[c].timer = now + from_secs(5)
        /\ Silence(c) = from_secs(10)

\* C19: once a CowChat exists its start instant never changes, its heartbeat
\* is never earlier than its start and never moves back, and the duration
\* recorded when it has stopped is the whole seconds from start to heartbeat,
\* which is not negative.
C19_HeartbeatNeverBeforeStart ==
    /\ [](\A c \in Conns :
            /\ chat[c].state # "Absent" => chat[c].heartbeat >= chat[c].started
            /\ chat[c].state = "Closed" =>
                  /\ chat_sessions[Len(chat_sessions)].duration
                        = as_secs(chat[c].heartbeat - chat[c].started)
                  /\ chat_sessions[Len(chat_sessions)].duration >= 0)
    /\ [][\A c \in Conns :
            chat[c].state # "Absent" =>
                /\ chat'[c].started = chat[c].started
                /\ chat'[c].heartbeat >= chat[c].heartbeat]_vars

\* A session that began after time had passed and had a later heartbeat was
\* recorded with a positive duration.
C19_Witness ==
    \E c \in Conns :
        /\ chat[c].state = "Closed"
        /\ chat[c].started > 0
        /\ chat[c].heartbeat > chat[c].started
        /\ chat_sessions[Len(chat_sessions)].duration > 0

\* ------------------------------------------------------------------------
\* More properties of the allocator (specification Spec)
\* ------------------------------------------------------------------------

\* Worker p executes an insert that the table refuses.
InsertFailed(p) ==
    /\ beckon[p].pc = "write"
    /\ beckon[p].next <= Len(beckon[p].new_cows)
    /\ Len(beckon'[p].queries) > Len(beckon[p].queries)
    /\ cows' = cows

\* C20: a beckon call one of whose inserts fails ends with WriteFailed and no
\* list of cows; and, however the calls interleave, every cow of a list that a
\* call returns is a row of the table with that name and that id.
C20_ListReturnedOnlyWhenWritten ==
    /\ [](\A p \in Workers :
            /\ beckon[p].result.kind = "Ok" =>
                  \A i \in 1..Len(beckon[p].result.cows) :
                      \E k \in 1..Len(cows) :
                          /\ cows[k].cow_name = beckon[p].result.cows[i].name
                          /\ cows[k].cow_id = beckon[p].result.cows[i].id
            /\ beckon[p].result.kind = "WriteFailed" => beckon[p].result.cows = <<>>)
    /\ [][\A p \in Workers :
            InsertFailed(p) =>
                /\ beckon'[p].pc = "done"
                /\ beckon'[p].result = [kind |-> "WriteFailed", cows |-> <<>>]]_vars

\* Two calls interleaved: one returned its list, the other failed at its
\* second insert.
C20_Witness ==
    \E p, q \in Workers :
        /\ p # q
        /\ beckon[p].result.kind = "Ok"
        /\ Len(beckon[p].result.cows) >= 1
        /\ beckon[p].interfered
        /\ beckon[q].result.kind = "WriteFailed"
        /\ beckon[q].next > 1

\* The cows of the batch of worker p whose inserts have succeeded.
Written(p) == { beckon[p].new_cows[i] : i \in 1..(beckon[p].next - 1) }

\* C21, as claimed: once a beckon call has failed with WriteFailed, no cow its
\* batch inserted is in the table: list_cows does not return it, the count does
\* not include it, and the existence check does not find its name.
C21_FailedBatchInvisible ==
    \A p \in Workers :
        beckon[p].result.kind = "WriteFailed" =>
            /\ \A cow \in Written(p) :
                  /\ \A i \in 1..Len(cows) : list_cows(cows)[i] # cow
                  /\ ~check_for_cow(cows, cow.name)
            /\ COUNT_COWS_QUERY(cows) =
                  Cardinality({ k \in 1..Len(cows) :
                                  \A cow \in Written(p) : cows[k].cow_name # cow.name })

\* C22: the rows of table cows stay as they were inserted: every step leaves
\* the rows the table had, with their name, id, colour, age and weight, in
\* place, and can only add rows after them; the cows a call in progress found
\* when it began are still there.
C22_CowsOnlyAdded ==
    /\ [](\A p \in Workers :
            beckon[p].pc # "idle" =>
                /\ Len(beckon[p].before) <= Len(cows)
                /\ SubSeq(cows, 1, Len(beckon[p].before)) = beckon[p].before)
    /\ [][/\ Len(cows') >= Len(cows)
           /\ SubSeq(cows', 1, Len(cows)) = cows
           /\ list_cows(SubSeq(cows', 1, Len(cows))) = list_cows(cows)]_vars

\* A call that found a cow when it began has had its insert refused, while
\* another call added a row: the cow it found is as it was.
C22_Witness ==
    \E p \in Workers :
        /\ Returned(p)
        /\ beckon[p].result.kind = "WriteFailed"
        /\ Len(beckon[p].before) >= 1
        /\ Len(cows) > Len(beckon[p].before)
        /\ cows[1] = beckon[p].before[1]

\* ------------------------------------------------------------------------
\* The session after it has left Active, and the responsive client (SpecChat)
\* ------------------------------------------------------------------------

\* The session of connection c was active and is no more.
LeftActive(c) == chat[c].state \in {"Closing", "Closed", "Aborted"}

\* C23: a session that a close frame or an unrecognized item has reached has
\* left Active and has no timer; and once a session has left Active, by these
\* or by the timer, no step writes a frame for it, handles an item for it, sets
\* its heartbeat or its timer, or makes it active again.
C23_NothingAfterLeavingActive ==
    /\ [](\A c \in Conns :
            /\ inbound[c].kind \in {"Close", "Nop", "ProtocolError"} => LeftActive(c)
            /\ LeftActive(c) => chat[c].timer = 0)
    /\ [][\A c \in Conns :
            LeftActive(c) =>
                /\ LeftActive(c)'
                /\ emitted'[c] = emitted[c]
                /\ inbound'[c] = inbound[c]
                /\ chat'[c].heartbeat = chat[c].heartbeat
                /\ chat'[c].timer = chat[c].timer]_vars

\* A session that the timer stopped has been recorded: its last callback wrote
\* nothing and its heartbeat is the one it had 15 seconds before.
C23_Witness ==
    \E c \in Conns :
        /\ chat[c].state = "Closed"
        /\ inbound[c] = NoItem /\ emitted[c] = <<>>
        /\ chat[c].timer = 0
        /\ Silence(c) = from_secs(15)
        /\ Len(chat_sessions) = 1

\* C24: the timer's callback never stops a session whose heartbeat is not
\* older than the callback's previous run (the client answered the last probe
\* with a pong, or sent a ping, since then): at most one interval has passed
\* since the heartbeat, the probe is written and the session stays active, so
\* that only a close frame, an unrecognized item or the end of the stream ends it.
C24_ResponsiveClientNotClosed ==
    /\ [][\A c \in Conns :
            (start_beating(c) /\ chat[c].heartbeat >= chat[c].timer - from_secs(5)) =>
                /\ Silence(c) <= from_secs(5)
                /\ chat'[c].state = "Active"
                /\ emitted'[c] = << Message("Ping", <<"0">>) >>]_vars
    /\ [][\A c \in Conns :
            (Active(c) /\ ~Active(c)' /\ Silence(c) <= from_secs(5)) =>
                \/ inbound'[c].kind \in {"Close", "Nop", "ProtocolError"}
                \/ finished(c)]_vars

\* A session 20 seconds old, whose heartbeat was refreshed within the last
\* interval, was probed once more.
C24_Witness ==
    \E c \in Conns :
        /\ Active(c)
        /\ inbound[c] = NoItem
        /\ emitted[c] = << Message("Ping", <<"0">>) >>
        /\ chat[c].timer = now + from_secs(5)
        /\ now - chat[c].started = from_secs(20)
        /\ Silence(c) > 0 /\ Silence(c) < from_secs(5)

\* ------------------------------------------------------------------------
\* Properties of the connection pool (specification SpecPool)
\* ------------------------------------------------------------------------

\* The handler invocations in progress: slots that are serving, and workers
\* inside beckon_cows_handler.
InProgress ==
    { r \in Reqs : req[r].pc = "serving" } \cup { p \in Workers : beckon[p].pc # "idle" }

\* The invocation that slot r served last has returned its response.
Ended(r) == req[r].pc = "idle" /\ req[r].response # "None"

\* C25: every count, list, allocate and chat-open invocation that is in
\* progress has taken exactly one connection from the pool, and an invocation
\* that has ended holds none, whichever response it ended with (Ok,
\* SwitchingProtocols, CapacityExhausted, QueryFailed, WriteFailed, or
\* BadRequest for a cow that is not there): the connections checked out are
\* as many as the invocations in progress, so none is checked out once all
\* invocations have ended. An invocation whose db_pool.get() failed took none.
C25_ConnectionHeldOnlyWhileServing ==
    /\ pool = Cardinality(InProgress)
    /\ \A r \in Reqs :
          /\ req[r].pc = "serving" => req[r].acquired = 1
          /\ Ended(r) => req[r].acquired = (IF req[r].response = "GetFailed" THEN 0 ELSE 1)
    /\ InProgress = {} => pool = 0

\* Both slots have served and ended on an error path, one allocate call with
\* CapacityExhausted and one chat request for a cow that is not there, and no
\* connection is checked out.
C25_Witness ==
    /\ InProgress = {}
    /\ pool = 0
    /\ req["r1"].route = "beckon" /\ req["r1"].response = "CapacityExhausted"
    /\ req["r1"].acquired = 1
    /\ req["r2"].route = "chat" /\ req["r2"].response = "BadRequest"
    /\ req["r2"].acquired = 1
    /\ \E c \in Conns : chat[c].response = "BadRequest"
    /\ Len(cows) = Cardinality(COW_NAMES)

====
